---- MODULE Spec2Model ----
(***************************************************************************)
(* Model of the Bonnard SDK client: the bearer-token cache of createClient *)
(* (getToken / parseJwtExpiry), the request executor, the public           *)
(* operations, and the pure query translation functions (toCubeQuery,      *)
(* buildNativeQuery, buildCubeQuery, simplifyResult).                      *)
(*                                                                         *)
(* The repository holds three revisions of createClient:                   *)
(*   "lenient"  src/src/client.ts 35-211                                   *)
(*   "strict"   src/src/client.ts 239-317                                  *)
(*   "dash"     src/unnamed/part_004 37-167                                *)
(* The revision is part of the state and is fixed by Init.                 *)
(*                                                                         *)
(* Strings whose dots matter are modelled as the list split('.') gives:    *)
(* a field reference "orders.revenue" is <<"orders", "revenue">>, and a    *)
(* credential is the list of its dot-separated segments.                   *)
(***************************************************************************)
EXTENDS Integers, Sequences, FiniteSets, TLC

VARIABLES
  revision,     \* which revision of createClient is running
  config,       \* BonnardConfig: apiKey (optional string), fetchToken (present?)
  client,       \* "unconstructed" | "ready" | "configError"
  now,          \* Date.now(), in milliseconds
  cachedToken,  \* <<>> is null, <<token>> a cached string
  cachedExpiry, \* milliseconds
  pc,           \* per task: where its operation is suspended
  op,           \* per task: the public operation it runs
  arg,          \* per task: the operation's argument
  tok,          \* per task: <<>> or <<credential>> getToken resolved with
  cb,           \* per task: fetchToken invocations made by the running operation
  rq,           \* per task: fetch calls made by the running operation
  err,          \* per task: why the operation failed
  fn,           \* pure functions: which function was applied ("none" before)
  options,      \* pure functions: the QueryOptions input
  cubeQuery,    \* pure functions: the translated query
  data,         \* simplifyResult: the input rows
  simplified    \* simplifyResult: the output rows

clientVars == <<revision, config, client, now, cachedToken, cachedExpiry,
                pc, op, arg, tok, cb, rq, err>>
pureVars == <<fn, options, cubeQuery, data, simplified>>
vars == <<clientVars, pureVars>>

----------------------------------------------------------------------------
(* Bounds *)

\* The clock advances at most MaxTicks times.
MaxTicks == 3

\* A measures list holds at most MaxFields field references.
MaxFields == 2

\* A result row holds at most MaxKeys keys.
MaxKeys == 2

----------------------------------------------------------------------------
(* Strings as lists of dot-separated segments *)

\* One dot-free piece of a credential string, described by what decoding it
\* yields: kind says what atob / JSON.parse make of it.
Seg(kind, exp) == [kind |-> kind, exp |-> exp]

EmptyString == <<Seg("empty", 0)>>
Opaque == Seg("opaque", 0)

\* A JavaScript string is truthy unless it is empty.
Truthy(s) == s # EmptyString

\* An optional string is <<>> (undefined / null) or <<s>>.
TruthyOpt(o) == o # <<>> /\ Truthy(o[1])

----------------------------------------------------------------------------
(* Token expiry *)

REFRESH_BUFFER_MS == 60000

\* A decoder that forgets the seconds-to-milliseconds conversion.
parseJwtExpirySeconds(token) ==
  IF Len(token) # 3 THEN 0
  ELSE IF token[2].kind = "numExp" THEN token[2].exp ELSE 0

\* A decoder that reads the second segment without requiring three of them
\* and accepts an exp of any type.
parseJwtExpiryUnchecked(token) ==
  IF Len(token) < 2 THEN 0
  ELSE IF token[2].kind \in {"numExp", "stringExp"}
         THEN token[2].exp * 1000 ELSE 0

\* parseJwtExpiry: split on '.', require three parts, decode the middle one
\* (atob, then JSON.parse), read a numeric exp and convert it to
\* milliseconds; every failure on the way yields 0.
parseJwtExpiry(token) ==
  IF Len(token) # 3 THEN 0
  ELSE LET payload == token[2] IN
       CASE payload.kind = "notBase64" -> 0   \* atob throws
         [] payload.kind = "empty"     -> 0   \* JSON.parse("") throws
         [] payload.kind = "opaque"    -> 0   \* not a JSON text
         [] payload.kind = "notJson"   -> 0   \* JSON.parse throws
         [] payload.kind = "jsonNull"  -> 0   \* null.exp throws
         [] payload.kind = "noExp"     -> 0   \* typeof undefined
         [] payload.kind = "stringExp" -> 0   \* typeof "string"
         [] payload.kind = "numExp"    -> payload.exp * 1000
         [] OTHER                      -> 0

----------------------------------------------------------------------------
(* The environment: the clock and what the credential callback returns *)

\* The clock moves in steps of half the refresh buffer, so that the
\* boundary cachedExpiry - REFRESH_BUFFER_MS = now is reached.
TickMs == REFRESH_BUFFER_MS \div 2
TickSeconds == TickMs \div 1000

\* exp claims (seconds) of the well-formed tokens the callback may return.
ExpSeconds == {TickSeconds * 3, TickSeconds * 5}

Jwt(exp) == <<Opaque, Seg("numExp", exp), Opaque>>

WellFormedTokens == {Jwt(e) : e \in ExpSeconds}

\* Tokens whose expiry cannot be decoded.
MalformedTokens ==
  { EmptyString,                                   \* ""
    <<Opaque, Seg("numExp", TickSeconds * 5)>>,    \* two segments
    <<Opaque, Seg("notBase64", 0), Opaque>>,       \* atob throws
    <<Opaque, Seg("notJson", 0), Opaque>>,         \* payload is not JSON
    <<Opaque, Seg("jsonNull", 0), Opaque>>,        \* payload is "null"
    <<Opaque, Seg("numExp", TickSeconds * 5), Opaque, Opaque>>, \* four
    <<Opaque, Seg("noExp", 0), Opaque>>,           \* JSON without exp
    <<Opaque, Seg("stringExp", TickSeconds * 5), Opaque>> }  \* exp: "150"

Tokens == WellFormedTokens \cup MalformedTokens

ApiKeyValue == <<Seg("apiKey", 0)>>

\* BonnardConfig (types.ts): apiKey?: string, fetchToken?: () => Promise<string>
Configs == [apiKey : {<<>>, <<ApiKeyValue>>}, fetchToken : BOOLEAN]

Revisions == {"lenient", "strict", "dash"}

Tasks == {"t1", "t2"}

----------------------------------------------------------------------------
(* Query descriptions *)

\* A QueryOptions object is a record holding only the fields that are set.
\* Field references and the cube name are strings split on '.'.
\* (The empty object {} has no keys at all.)
Has(o, k) == DOMAIN o # {} /\ k \in DOMAIN o

\* String.prototype.includes('.')
includesDot(f) == Len(f) > 1

\* `${options.cube}`: an unset cube is rendered as the text "undefined".
cubeText(o) == IF Has(o, "cube") THEN o.cube ELSE <<"undefined">>

\* !options.cube: unset, or the empty string.
noCube(o) == IF Has(o, "cube") THEN o.cube = <<"">> ELSE TRUE

\* Every field reference a query description makes.
referencedFields(o) ==
  (IF Has(o, "measures") THEN {o.measures[i] : i \in DOMAIN o.measures} ELSE {})
  \cup (IF Has(o, "dimensions")
          THEN {o.dimensions[i] : i \in DOMAIN o.dimensions} ELSE {})
  \cup (IF Has(o, "filters")
          THEN {o.filters[i].dimension : i \in DOMAIN o.filters} ELSE {})
  \cup (IF Has(o, "timeDimension") THEN {o.timeDimension.dimension} ELSE {})
  \cup (IF Has(o, "orderBy")
          THEN {o.orderBy[i][1] : i \in DOMAIN o.orderBy} ELSE {})

\* isCubeNativeFormat (query.js of the lenient revision; its source is not in
\* src/): a description is native-shaped when no cube name is present and all
\* referenced fields are already fully qualified.
isCubeNativeFormat(o) ==
  noCube(o) /\ \A f \in referencedFields(o) : includesDot(f)

\* What the synchronous head of query() does with the description before it
\* calls request(): "throw" or "built".
queryHead(rev, o) ==
  IF rev = "lenient"
    THEN IF isCubeNativeFormat(o) THEN "built"      \* buildNativeQuery
         ELSE IF noCube(o) THEN "throw"
         ELSE "built"                               \* buildCubeQuery
    ELSE "built"    \* strict: buildCubeQuery, dash: toCubeQuery; neither throws

\* The query descriptions the client's tasks submit.
ShortNoCube == [measures |-> << <<"revenue">> >>]
NativeShaped == [measures |-> << <<"orders", "revenue">> >>]
ShortWithCube == [cube |-> <<"orders">>, measures |-> << <<"revenue">> >>]
QueryArgs == {ShortNoCube, NativeShaped, ShortWithCube}

NoArg == [none |-> TRUE]

\* The public operations each revision returns from createClient.
Ops(rev) ==
  CASE rev = "lenient" -> {"query", "rawQuery", "sql", "explore"}
    [] rev = "strict"  -> {"query", "sql"}
    [] rev = "dash"    -> {"query", "rawQuery", "sql", "explore",
                           "getDashboard", "listDashboards"}

ArgsOf(o) == IF o = "query" THEN QueryArgs ELSE {NoArg}

\* request() is POST, requestGet() is GET.
Method(o) == IF o \in {"query", "rawQuery", "sql"} THEN "POST" ELSE "GET"

----------------------------------------------------------------------------
(* Query translation *)

\* The value of property k of object r: <<v>>, or <<>> when it is undefined.
Prop(r, k) == IF Has(r, k) THEN <<r[k]>> ELSE <<>>

\* if (options.limit): set and not 0.
limitTruthy(o) == Has(o, "limit") /\ o.limit # 0

\* The keys the three translators assign to cubeQuery.
emittedKeys(o) ==
  (IF Has(o, "measures") THEN {"measures"} ELSE {})
  \cup (IF Has(o, "dimensions") THEN {"dimensions"} ELSE {})
  \cup (IF Has(o, "filters") THEN {"filters"} ELSE {})
  \cup (IF Has(o, "timeDimension") THEN {"timeDimensions"} ELSE {})
  \cup (IF Has(o, "orderBy") THEN {"order"} ELSE {})
  \cup (IF limitTruthy(o) THEN {"limit"} ELSE {})

\* toCubeQuery (part_000): field references are copied as they are.
\* An orderBy object is the list of its [key, direction] entries; a property
\* of the time dimension that is not set is emitted with the value undefined.
toCubeQuery(o) ==
  [k \in emittedKeys(o) |->
     CASE k = "measures" -> o.measures
       [] k = "dimensions" -> o.dimensions
       [] k = "filters" ->
            [i \in DOMAIN o.filters |->
               [member |-> o.filters[i].dimension,
                operator |-> o.filters[i].operator,
                values |-> o.filters[i].values]]
       [] k = "timeDimensions" ->
            <<[dimension |-> o.timeDimension.dimension,
               granularity |-> Prop(o.timeDimension, "granularity"),
               dateRange |-> Prop(o.timeDimension, "dateRange")]>>
       [] k = "order" ->
            [i \in DOMAIN o.orderBy |-> <<o.orderBy[i][1], o.orderBy[i][2]>>]
       [] k = "limit" -> o.limit]

\* buildNativeQuery (client.ts, lenient revision): the same translation.
buildNativeQuery(o) ==
  [k \in emittedKeys(o) |->
     CASE k = "measures" -> o.measures
       [] k = "dimensions" -> o.dimensions
       [] k = "filters" ->
            [i \in DOMAIN o.filters |->
               [member |-> o.filters[i].dimension,
                operator |-> o.filters[i].operator,
                values |-> o.filters[i].values]]
       [] k = "timeDimensions" ->
            <<[dimension |-> o.timeDimension.dimension,
               granularity |-> Prop(o.timeDimension, "granularity"),
               dateRange |-> Prop(o.timeDimension, "dateRange")]>>
       [] k = "order" ->
            [i \in DOMAIN o.orderBy |-> <<o.orderBy[i][1], o.orderBy[i][2]>>]
       [] k = "limit" -> o.limit]

\* x.includes('.') ? x : `${options.cube}.${x}`
qualify(o, x) == IF includesDot(x) THEN x ELSE cubeText(o) \o x

\* buildCubeQuery (part_001): every field reference without a dot gets the
\* cube name in front; a filter keeps its field under the key dimension.
buildCubeQuery(o) ==
  [k \in emittedKeys(o) |->
     CASE k = "measures" ->
            [i \in DOMAIN o.measures |-> qualify(o, o.measures[i])]
       [] k = "dimensions" ->
            [i \in DOMAIN o.dimensions |-> qualify(o, o.dimensions[i])]
       [] k = "filters" ->
            [i \in DOMAIN o.filters |->
               [dimension |-> qualify(o, o.filters[i].dimension),
                operator |-> o.filters[i].operator,
                values |-> o.filters[i].values]]
       [] k = "timeDimensions" ->
            <<[dimension |-> qualify(o, o.timeDimension.dimension),
               granularity |-> Prop(o.timeDimension, "granularity"),
               dateRange |-> Prop(o.timeDimension, "dateRange")]>>
       [] k = "order" ->
            [i \in DOMAIN o.orderBy |->
               <<qualify(o, o.orderBy[i][1]), o.orderBy[i][2]>>]
       [] k = "limit" -> o.limit]

----------------------------------------------------------------------------
(* Result simplification *)

\* A row object is the list of its [key, value] entries in key order.
\* A plain assignment that stores under the key only when it is new.
setPropKeepFirst(obj, k, v) ==
  IF \E i \in DOMAIN obj : obj[i][1] = k THEN obj ELSE Append(obj, <<k, v>>)

\* simplified[simpleName] = value: an existing key keeps its place and takes
\* the new value, a new key is added at the end.
setProp(obj, k, v) ==
  IF \E i \in DOMAIN obj : obj[i][1] = k
    THEN [i \in DOMAIN obj |-> IF obj[i][1] = k THEN <<k, v>> ELSE obj[i]]
    ELSE Append(obj, <<k, v>>)

\* key.includes('.') ? key.split('.').pop()! : key
simpleName(key) == IF includesDot(key) THEN <<key[Len(key)]>> ELSE key

\* The for loop over Object.entries(row), with the object built so far.
RECURSIVE simplifyRow(_, _)
simplifyRow(entries, acc) ==
  IF entries = <<>> THEN acc
  ELSE LET key == Head(entries)[1]
           value == Head(entries)[2]
       IN simplifyRow(Tail(entries), setProp(acc, simpleName(key), value))

\* simplifyResult: data.map(row => ...)
simplifyResult(d) == [i \in DOMAIN d |-> simplifyRow(d[i], <<>>)]

----------------------------------------------------------------------------
(* createClient and getToken *)

hasApiKey(cfg) == TruthyOpt(cfg.apiKey)
hasFetchToken(cfg) == cfg.fetchToken

\* createClient: only the strict revision validates the configuration.
createClient(rev, cfg) ==
  IF rev = "strict"
    THEN IF ~hasApiKey(cfg) /\ ~hasFetchToken(cfg) THEN "configError"
         ELSE IF hasApiKey(cfg) /\ hasFetchToken(cfg) THEN "configError"
         ELSE "ready"
    ELSE "ready"

\* A validity test without the refresh buffer.
cacheValidNoBuffer(cTok, cExp, t) == TruthyOpt(cTok) /\ cExp > t

\* if (cachedToken && cachedExpiry - REFRESH_BUFFER_MS > now)
cacheValid(cTok, cExp, t) == TruthyOpt(cTok) /\ cExp - REFRESH_BUFFER_MS > t

\* A getToken that consults the callback before the static key.
getTokenCallbackFirst(rev, cfg, cTok, cExp, t) ==
  IF hasFetchToken(cfg)
    THEN IF cacheValid(cTok, cExp, t) THEN "hit" ELSE "miss"
  ELSE IF hasApiKey(cfg) THEN "static"
  ELSE "throw"

\* A getToken with a single-flight guard: while a callback invocation is
\* in flight a caller that misses the cache joins it and starts none.
getTokenSingleFlight(rev, cfg, cTok, cExp, t) ==
  IF hasApiKey(cfg) THEN "static"
  ELSE IF rev = "strict" \/ hasFetchToken(cfg)
    THEN IF cacheValid(cTok, cExp, t) THEN "hit"
         ELSE IF \E u \in Tasks : pc[u] = "awaitToken" THEN "hit"
         ELSE "miss"
  ELSE "throw"

\* The synchronous head of getToken: which branch it takes.
\*   "static"  return config.apiKey
\*   "hit"     return cachedToken
\*   "miss"    await config.fetchToken()
\*   "throw"   neither credential source (lenient and dash revisions)
getToken(rev, cfg, cTok, cExp, t) ==
  IF hasApiKey(cfg) THEN "static"
  ELSE IF rev = "strict" \/ hasFetchToken(cfg)
    THEN IF cacheValid(cTok, cExp, t) THEN "hit" ELSE "miss"
  ELSE "throw"

----------------------------------------------------------------------------
(* The client: construction, operations, suspension points *)

\* The pure-function variables rest while the client runs.
PureIdle ==
  /\ fn = "none"
  /\ options = NoArg
  /\ cubeQuery = NoArg
  /\ data = <<>>
  /\ simplified = <<>>

Init ==
  /\ revision \in Revisions
  /\ config \in Configs
  /\ client = "unconstructed"
  /\ now = 0
  /\ cachedToken = <<>>
  /\ cachedExpiry = 0
  /\ pc = [t \in Tasks |-> "idle"]
  /\ op = [t \in Tasks |-> "none"]
  /\ arg = [t \in Tasks |-> NoArg]
  /\ tok = [t \in Tasks |-> <<>>]
  /\ cb = [t \in Tasks |-> 0]
  /\ rq = [t \in Tasks |-> 0]
  /\ err = [t \in Tasks |-> "none"]
  /\ PureIdle

\* createClient(config)
CreateClient ==
  /\ client = "unconstructed"
  /\ client' = createClient(revision, config)
  /\ UNCHANGED <<revision, config, now, cachedToken, cachedExpiry,
                 pc, op, arg, tok, cb, rq, err, pureVars>>

\* Date.now() moves on.
Tick ==
  /\ now < MaxTicks * TickMs
  /\ now' = now + TickMs
  /\ UNCHANGED <<revision, config, client, cachedToken, cachedExpiry,
                 pc, op, arg, tok, cb, rq, err, pureVars>>

\* A task calls a public operation. Everything up to the first suspension
\* runs in one step: query() translates its description, request() or
\* requestGet() calls getToken(), and getToken() either returns (static key,
\* cache hit), throws, or calls config.fetchToken() and suspends.
StartOp(t, o, a) ==
  /\ client = "ready"
  /\ pc[t] = "idle"
  /\ o \in Ops(revision)
  /\ a \in ArgsOf(o)
  /\ LET head == IF o = "query" THEN queryHead(revision, a) ELSE "built"
         g == getToken(revision, config, cachedToken, cachedExpiry, now)
     IN /\ op' = [op EXCEPT ![t] = o]
        /\ arg' = [arg EXCEPT ![t] = a]
        /\ rq' = [rq EXCEPT ![t] = 0]
        /\ IF head = "throw"
             THEN /\ pc' = [pc EXCEPT ![t] = "failed"]
                  /\ err' = [err EXCEPT ![t] = "options"]
                  /\ UNCHANGED <<tok, cb>>
             ELSE CASE g = "static" ->
                         /\ pc' = [pc EXCEPT ![t] = "haveToken"]
                         /\ tok' = [tok EXCEPT ![t] = config.apiKey]
                         /\ UNCHANGED <<cb, err>>
                    [] g = "hit" ->
                         /\ pc' = [pc EXCEPT ![t] = "haveToken"]
                         /\ tok' = [tok EXCEPT ![t] = cachedToken]
                         /\ UNCHANGED <<cb, err>>
                    [] g = "miss" ->
                         /\ pc' = [pc EXCEPT ![t] = "awaitToken"]
                         /\ cb' = [cb EXCEPT ![t] = cb[t] + 1]
                         /\ UNCHANGED <<tok, err>>
                    [] g = "throw" ->
                         /\ pc' = [pc EXCEPT ![t] = "failed"]
                         /\ err' = [err EXCEPT ![t] = "credential"]
                         /\ UNCHANGED <<tok, cb>>
  /\ UNCHANGED <<revision, config, client, now, cachedToken, cachedExpiry,
                 pureVars>>

\* A variant of FetchTokenResolve that stores the token and leaves the
\* expiry of the previous entry in place.
FetchTokenResolveTokenOnly(t, token) ==
  /\ pc[t] = "awaitToken"
  /\ token \in Tokens
  /\ cachedToken' = <<token>>
  /\ tok' = [tok EXCEPT ![t] = <<token>>]
  /\ pc' = [pc EXCEPT ![t] = "haveToken"]
  /\ UNCHANGED <<revision, config, client, now, cachedExpiry, op, arg, cb, rq,
                 err, pureVars>>

\* config.fetchToken() resolves with token: getToken stores it with its
\* decoded expiry and returns it.
FetchTokenResolve(t, token) ==
  /\ pc[t] = "awaitToken"
  /\ token \in Tokens
  /\ cachedToken' = <<token>>
  /\ cachedExpiry' = parseJwtExpiry(token)
  /\ tok' = [tok EXCEPT ![t] = <<token>>]
  /\ pc' = [pc EXCEPT ![t] = "haveToken"]
  /\ UNCHANGED <<revision, config, client, now, op, arg, cb, rq, err, pureVars>>

\* A variant of FetchTokenReject that drops the cached entry when the
\* callback rejects.
FetchTokenRejectClearsCache(t) ==
  /\ pc[t] = "awaitToken"
  /\ pc' = [pc EXCEPT ![t] = "failed"]
  /\ err' = [err EXCEPT ![t] = "fetchToken"]
  /\ cachedToken' = <<>>
  /\ cachedExpiry' = 0
  /\ UNCHANGED <<revision, config, client, now, op, arg, tok, cb, rq,
                 pureVars>>

\* config.fetchToken() rejects: the rejection passes through getToken and
\* request to the caller.
FetchTokenReject(t) ==
  /\ pc[t] = "awaitToken"
  /\ pc' = [pc EXCEPT ![t] = "failed"]
  /\ err' = [err EXCEPT ![t] = "fetchToken"]
  /\ UNCHANGED <<revision, config, client, now, cachedToken, cachedExpiry,
                 op, arg, tok, cb, rq, pureVars>>

\* request / requestGet resume with the token and hand it to fetch() in the
\* Authorization header; the local variable token is not used again.
SendRequest(t) ==
  /\ pc[t] = "haveToken"
  /\ rq' = [rq EXCEPT ![t] = rq[t] + 1]
  /\ tok' = [tok EXCEPT ![t] = <<>>]
  /\ pc' = [pc EXCEPT ![t] = "awaitResponse"]
  /\ UNCHANGED <<revision, config, client, now, cachedToken, cachedExpiry,
                 op, arg, cb, err, pureVars>>

\* The response is ok: the operation returns its result.
ResponseOk(t) ==
  /\ pc[t] = "awaitResponse"
  /\ pc' = [pc EXCEPT ![t] = "done"]
  /\ UNCHANGED <<revision, config, client, now, cachedToken, cachedExpiry,
                 op, arg, tok, cb, rq, err, pureVars>>

\* A variant of ResponseNotOk that sends the request again instead of
\* throwing.
ResponseNotOkRetry(t) ==
  /\ pc[t] = "awaitResponse"
  /\ pc' = [pc EXCEPT ![t] = "haveToken"]
  /\ UNCHANGED <<revision, config, client, now, cachedToken, cachedExpiry,
                 op, arg, tok, cb, rq, err, pureVars>>

\* The response is not ok: throw new Error(error.error || ...).
ResponseNotOk(t) ==
  /\ pc[t] = "awaitResponse"
  /\ pc' = [pc EXCEPT ![t] = "failed"]
  /\ err' = [err EXCEPT ![t] = "http"]
  /\ UNCHANGED <<revision, config, client, now, cachedToken, cachedExpiry,
                 op, arg, tok, cb, rq, pureVars>>

\* The caller has its result or its error; the task is free again.
Return(t) ==
  /\ pc[t] \in {"done", "failed"}
  /\ pc' = [pc EXCEPT ![t] = "idle"]
  /\ op' = [op EXCEPT ![t] = "none"]
  /\ arg' = [arg EXCEPT ![t] = NoArg]
  /\ tok' = [tok EXCEPT ![t] = <<>>]
  /\ cb' = [cb EXCEPT ![t] = 0]
  /\ rq' = [rq EXCEPT ![t] = 0]
  /\ err' = [err EXCEPT ![t] = "none"]
  /\ UNCHANGED <<revision, config, client, now, cachedToken, cachedExpiry,
                 pureVars>>

AllOps == Ops("dash")

Next ==
  \/ CreateClient
  \/ Tick
  \/ \E t \in Tasks, o \in AllOps : \E a \in ArgsOf(o) : StartOp(t, o, a)
  \/ \E t \in Tasks, token \in Tokens : FetchTokenResolve(t, token)
  \/ \E t \in Tasks : FetchTokenReject(t)
  \/ \E t \in Tasks : SendRequest(t)
  \/ \E t \in Tasks : ResponseOk(t)
  \/ \E t \in Tasks : ResponseNotOk(t)
  \/ \E t \in Tasks : Return(t)

Spec == Init /\ [][Next]_vars

----------------------------------------------------------------------------
(* Vocabulary of the claims about the token cache *)

\* The client is governed by the callback: no usable static key.
CallbackMode == ~hasApiKey(config) /\ hasFetchToken(config)

\* The client is governed by the static key.
StaticMode == hasApiKey(config)

\* In this step task t starts an operation that reaches getToken().
GetTokenCalled(t) ==
  pc[t] = "idle" /\ pc'[t] # "idle" /\ err'[t] # "options"

\* In this step the callback invoked for task t resolves.
CallbackResolved(t) == pc[t] = "awaitToken" /\ pc'[t] = "haveToken"

\* A cached token exists and cachedExpiry - 60000 > now.
EntryValid == cachedToken # <<>> /\ cachedExpiry - 60000 > now

\* The expiry a token carries: its exp claim (seconds) times 1000.
ExpiryOf(token) == token[2].exp * 1000

\* The expiry of the token cannot be decoded: not exactly three segments,
\* a middle segment that is not valid JSON, or no numeric exp.
Undecodable(token) ==
  \/ Len(token) # 3
  \/ token[2].kind \in {"notBase64", "notJson", "empty", "opaque"}
  \/ token[2].kind \in {"jsonNull", "noExp", "stringExp"}

\* C1: in callback mode a getToken call made while a cached token exists and
\* cachedExpiry - 60000 > now returns the cached token, invokes no callback
\* and leaves the cache as it was; and every token getToken serves from the
\* cache has more than 60000 ms left before its expiry when it is returned.
C1_CacheHit ==
  [][\A t \in Tasks :
       /\ (GetTokenCalled(t) /\ CallbackMode /\ EntryValid)
            => /\ pc'[t] = "haveToken"
               /\ tok'[t] = cachedToken
               /\ cb' = cb
               /\ cachedToken' = cachedToken
               /\ cachedExpiry' = cachedExpiry
       /\ (GetTokenCalled(t) /\ CallbackMode /\ pc'[t] = "haveToken")
            => /\ tok'[t] = cachedToken
               /\ ~Undecodable(tok'[t][1])
               /\ ExpiryOf(tok'[t][1]) - now > 60000]_vars

\* A task holds a token it was served from the cache.
C1_Witness ==
  \E t \in Tasks :
    /\ CallbackMode
    /\ pc[t] = "haveToken"
    /\ cb[t] = 0
    /\ tok[t] = cachedToken
    /\ ExpiryOf(tok[t][1]) - now > 60000

\* C2: in callback mode a getToken call made with no cached token, or with
\* now >= cachedExpiry - 60000, invokes the callback exactly once; when the
\* callback resolves, the returned token and its decoded expiry (exp * 1000)
\* become the cache entry and the call returns that token; calls made while
\* the entry is valid invoke no callback.
C2_Refresh ==
  [][\A t \in Tasks :
       /\ (GetTokenCalled(t) /\ CallbackMode
             /\ (cachedToken = <<>> \/ now >= cachedExpiry - 60000))
            => /\ pc'[t] = "awaitToken"
               /\ cb'[t] = 1
               /\ \A u \in Tasks \ {t} : cb'[u] = cb[u]
       /\ CallbackResolved(t)
            => /\ tok'[t] # <<>>
               /\ cachedToken' = tok'[t]
               /\ ~Undecodable(tok'[t][1])
                    => cachedExpiry' = ExpiryOf(tok'[t][1])
               /\ cb' = cb
               /\ cb[t] = 1
       /\ (GetTokenCalled(t) /\ CallbackMode /\ EntryValid) => cb' = cb]_vars

\* One task refreshed the cache with a well-formed token and another was
\* then served that entry without a callback.
C2_Witness ==
  \E t, u \in Tasks :
    /\ CallbackMode
    /\ pc[t] = "awaitResponse" /\ cb[t] = 1
    /\ pc[u] = "haveToken" /\ cb[u] = 0
    /\ tok[u] = cachedToken
    /\ cachedExpiry = ExpiryOf(cachedToken[1])
    /\ cachedExpiry > 0

\* C3: when the callback returns a token whose expiry cannot be decoded, the
\* call still returns that token (no error), the cached expiry becomes 0,
\* and every getToken call made while that entry is cached invokes the
\* callback again, whatever the clock says.
C3_UndecodableToken ==
  [][\A t \in Tasks :
       /\ (CallbackResolved(t) /\ Undecodable(tok'[t][1]))
            => /\ cachedExpiry' = 0
               /\ cachedToken' = tok'[t]
               /\ err'[t] = "none"
       /\ (GetTokenCalled(t) /\ CallbackMode
             /\ cachedToken # <<>> /\ Undecodable(cachedToken[1]))
            => /\ cachedExpiry = 0
               /\ pc'[t] = "awaitToken"
               /\ cb'[t] = 1]_vars

\* An undecodable token is cached with expiry 0 and, with no time elapsed,
\* a later call has invoked the callback again.
C3_Witness ==
  \E t, u \in Tasks :
    /\ CallbackMode
    /\ now = 0
    /\ cachedToken # <<>> /\ Undecodable(cachedToken[1])
    /\ cachedExpiry = 0
    /\ pc[t] = "awaitResponse" /\ cb[t] = 1
    /\ pc[u] = "awaitToken" /\ cb[u] = 1

\* C4: a client configured with neither credential source, or with both,
\* fails configuration validation: none of its operations obtains a
\* credential, invokes the callback or reaches the outbound request.
C4_BadConfigNeverRequests ==
  ((~hasApiKey(config) /\ ~hasFetchToken(config))
     \/ (hasApiKey(config) /\ hasFetchToken(config)))
    => \A t \in Tasks :
         /\ rq[t] = 0
         /\ cb[t] = 0
         /\ pc[t] \notin {"awaitToken", "haveToken", "awaitResponse", "done"}

\* C5: in static mode every getToken call returns the configured static
\* string, the callback is never invoked, and the cache entry stays at its
\* initial value (no token, expiry 0).
C5_StaticMode ==
  StaticMode =>
    /\ cachedToken = <<>>
    /\ cachedExpiry = 0
    /\ \A t \in Tasks :
         /\ cb[t] = 0
         /\ pc[t] # "awaitToken"
         /\ err[t] \notin {"credential", "fetchToken"}
         /\ pc[t] = "haveToken" => tok[t] = config.apiKey

\* A static-mode client that also has a callback configured has completed
\* one operation and holds the static key for the next.
C5_Witness ==
  \E t, u \in Tasks :
    /\ StaticMode /\ hasFetchToken(config)
    /\ pc[t] = "done" /\ rq[t] = 1
    /\ pc[u] = "haveToken" /\ tok[u] = <<ApiKeyValue>>

\* A query description that uses a short field name and declares no cube.
ShortWithoutCube(o) ==
  noCube(o) /\ \E f \in referencedFields(o) : ~includesDot(f)

\* C7: a query whose description uses a short field name without declaring
\* a cube fails with a configuration error before the credential is
\* obtained and before any outbound request.
C7_ShortNameNeedsCube ==
  \A t \in Tasks :
    (op[t] = "query" /\ ShortWithoutCube(arg[t]))
      => /\ pc[t] = "failed"
         /\ err[t] = "options"
         /\ cb[t] = 0
         /\ rq[t] = 0

----------------------------------------------------------------------------
(* The pure functions applied to bounded inputs *)

\* The client rests while the pure functions are applied.
ClientIdle ==
  /\ revision = "lenient"
  /\ config = [apiKey |-> <<>>, fetchToken |-> FALSE]
  /\ client = "unconstructed"
  /\ now = 0
  /\ cachedToken = <<>>
  /\ cachedExpiry = 0
  /\ pc = [t \in Tasks |-> "idle"]
  /\ op = [t \in Tasks |-> "none"]
  /\ arg = [t \in Tasks |-> NoArg]
  /\ tok = [t \in Tasks |-> <<>>]
  /\ cb = [t \in Tasks |-> 0]
  /\ rq = [t \in Tasks |-> 0]
  /\ err = [t \in Tasks |-> "none"]

SeqsUpTo(S, n) == UNION {[1..k -> S] : k \in 0..n}

FieldRefs == {<<"revenue">>, <<"orders", "revenue">>}

StatusFilter ==
  [dimension |-> <<"status">>, operator |-> "equals", values |-> <<"completed">>]
AmountFilter ==
  [dimension |-> <<"orders", "amount">>, operator |-> "gt", values |-> <<"10", "20">>]

\* Candidate values for each field of QueryOptions.
FullOptions ==
  [cube : {<<"orders">>},
   measures : SeqsUpTo(FieldRefs, MaxFields),
   dimensions : {<< <<"status">> >>, << <<"orders", "status">> >>},
   filters : {<<>>, <<StatusFilter>>, <<AmountFilter, StatusFilter>>},
   timeDimension :
     {[dimension |-> <<"created_at">>],
      [dimension |-> <<"orders", "created_at">>, granularity |-> "month"],
      [dimension |-> <<"created_at">>, granularity |-> "day",
       dateRange |-> <<"2025-01-01", "2025-12-31">>]},
   orderBy : {<<>>, << <<<<"revenue">>, "desc">> >>,
              << <<<<"orders", "revenue">>, "asc">>, <<<<"status">>, "desc">> >>},
   limit : {0, 10}]

OptionKeys ==
  {"cube", "measures", "dimensions", "filters", "timeDimension", "orderBy", "limit"}

InitTranslate ==
  /\ ClientIdle
  /\ fn = "none"
  /\ \E K \in SUBSET OptionKeys, full \in FullOptions :
       options = [k \in K |-> full[k]]
  /\ cubeQuery = NoArg
  /\ data = <<>>
  /\ simplified = <<>>

\* toCubeQuery(options)
ToCubeQuery ==
  /\ fn = "none"
  /\ fn' = "toCubeQuery"
  /\ cubeQuery' = toCubeQuery(options)
  /\ UNCHANGED <<clientVars, options, data, simplified>>

\* buildNativeQuery(options), which query() calls for native-shaped options
BuildNativeQuery ==
  /\ fn = "none"
  /\ isCubeNativeFormat(options)
  /\ fn' = "buildNativeQuery"
  /\ cubeQuery' = buildNativeQuery(options)
  /\ UNCHANGED <<clientVars, options, data, simplified>>

\* buildCubeQuery(options)
BuildCubeQuery ==
  /\ fn = "none"
  /\ fn' = "buildCubeQuery"
  /\ cubeQuery' = buildCubeQuery(options)
  /\ UNCHANGED <<clientVars, options, data, simplified>>

NextTranslate == ToCubeQuery \/ BuildNativeQuery \/ BuildCubeQuery

SpecTranslate == InitTranslate /\ [][NextTranslate]_vars

\* Result rows: keys are distinct within a row.
RowKeys == {<<"revenue">>, <<"orders", "revenue">>, <<"orders", "count">>,
            <<"db", "orders", "count">>}
RowValues == {2, 100}

Rows ==
  {r \in SeqsUpTo(RowKeys \X RowValues, MaxKeys) :
     \A i, j \in DOMAIN r : i # j => r[i][1] # r[j][1]}

DataInputs == {<<>>} \cup {<<r>> : r \in Rows} \cup (Rows \X Rows)

InitSimplify ==
  /\ ClientIdle
  /\ fn = "none"
  /\ options = NoArg
  /\ cubeQuery = NoArg
  /\ data \in DataInputs
  /\ simplified = <<>>

\* simplifyResult(data)
SimplifyResult ==
  /\ fn = "none"
  /\ fn' = "simplifyResult"
  /\ simplified' = simplifyResult(data)
  /\ UNCHANGED <<clientVars, options, cubeQuery, data>>

NextSimplify == SimplifyResult

SpecSimplify == InitSimplify /\ [][NextSimplify]_vars

----------------------------------------------------------------------------
(* Claims about the pure functions *)

Translators == {"toCubeQuery", "buildNativeQuery", "buildCubeQuery"}

\* The field a translated filter names, under whichever key it carries it.
filterField(f) == IF Has(f, "member") THEN f.member ELSE f.dimension

\* Every field reference of a translated query.
outputFields(q) ==
  (IF Has(q, "measures") THEN {q.measures[i] : i \in DOMAIN q.measures} ELSE {})
  \cup (IF Has(q, "dimensions")
          THEN {q.dimensions[i] : i \in DOMAIN q.dimensions} ELSE {})
  \cup (IF Has(q, "filters")
          THEN {filterField(q.filters[i]) : i \in DOMAIN q.filters} ELSE {})
  \cup (IF Has(q, "timeDimensions")
          THEN {q.timeDimensions[i].dimension : i \in DOMAIN q.timeDimensions}
          ELSE {})
  \cup (IF Has(q, "order") THEN {q.order[i][1] : i \in DOMAIN q.order} ELSE {})

\* f contains '.', with the cube name in front: it is a reference the
\* description already gave qualified, or the declared cube followed by one
\* of the description's references.
FullyQualified(f) ==
  /\ includesDot(f)
  /\ \/ f \in referencedFields(options)
     \/ /\ ~noCube(options)
        /\ \E g \in referencedFields(options) : f = options.cube \o g

\* C6: every field reference of a translated query (measure, dimension,
\* filter member, time-dimension field, order key) is fully qualified, in
\* the native-shaped and in the short-name-shaped path.
C6_AllFieldsQualified ==
  fn \in Translators => \A f \in outputFields(cubeQuery) : FullyQualified(f)

\* C8: each output key appears if and only if the corresponding input field
\* is present, and no emitted key or sub-field is empty or undefined.
C8_KeysIffPresent ==
  fn \in Translators =>
    /\ Has(cubeQuery, "measures") <=> Has(options, "measures")
    /\ Has(cubeQuery, "dimensions") <=> Has(options, "dimensions")
    /\ Has(cubeQuery, "filters") <=> Has(options, "filters")
    /\ Has(cubeQuery, "timeDimensions") <=> Has(options, "timeDimension")
    /\ Has(cubeQuery, "order") <=> Has(options, "orderBy")
    /\ Has(cubeQuery, "limit") <=> Has(options, "limit")
    /\ Has(cubeQuery, "measures") => cubeQuery.measures # <<>>
    /\ Has(cubeQuery, "dimensions") => cubeQuery.dimensions # <<>>
    /\ Has(cubeQuery, "filters") => cubeQuery.filters # <<>>
    /\ Has(cubeQuery, "order") => cubeQuery.order # <<>>
    /\ Has(cubeQuery, "timeDimensions") =>
         \A i \in DOMAIN cubeQuery.timeDimensions :
           /\ cubeQuery.timeDimensions[i].granularity # <<>>
           /\ cubeQuery.timeDimensions[i].dateRange # <<>>

\* The claim's short(k): the segment after the last '.', or k itself.
short(k) == <<k[Len(k)]>>

\* The value an object, given as its entry list, holds under key k.
valueAt(obj, k) == (CHOOSE e \in {obj[i] : i \in DOMAIN obj} : e[1] = k)[2]

\* Output row out is what the claim says of input row in.
RowSimplified(in, out) ==
  /\ \A a, b \in DOMAIN out : a # b => out[a][1] # out[b][1]
  /\ {out[j][1] : j \in DOMAIN out} = {short(in[j][1]) : j \in DOMAIN in}
  /\ \A j \in DOMAIN in :
       LET last == CHOOSE m \in DOMAIN in :
                     /\ short(in[m][1]) = short(in[j][1])
                     /\ \A n \in DOMAIN in :
                          short(in[n][1]) = short(in[j][1]) => n <= m
       IN valueAt(out, short(in[j][1])) = in[last][2]
  /\ (\A j \in DOMAIN in : ~includesDot(in[j][1])) => out = in

\* C9: simplifyResult returns one row per input row in the same order; each
\* output row maps short(k) to the input value for every input key k, and
\* when several keys share a short name it holds one entry with the value of
\* the key that comes last; a row without qualified keys is returned with
\* identical content; the input rows are not changed.
C9_SimplifyResult ==
  [][(fn = "none" /\ fn' = "simplifyResult")
       => /\ data' = data
          /\ Len(simplified') = Len(data)
          /\ \A i \in DOMAIN data : RowSimplified(data[i], simplified'[i])]_vars

\* Two rows were simplified; in the first, two keys with different values
\* collapsed into one entry that holds the value of the later key.
C9_Witness ==
  /\ fn = "simplifyResult"
  /\ Len(data) = 2
  /\ Len(data[1]) = 2
  /\ short(data[1][1][1]) = short(data[1][2][1])
  /\ data[1][1][2] # data[1][2][2]
  /\ simplified[1] = << <<short(data[1][2][1]), data[1][2][2]>> >>
  /\ Len(simplified[2]) = 2

\* C10: every filter of a translated query has exactly the fields member,
\* operator and values; member is the (qualified) dimension of the
\* corresponding input filter, operator and values are copied, and the
\* filters keep their input order.
C10_FilterShape ==
  (fn \in Translators /\ Has(options, "filters")) =>
    /\ Has(cubeQuery, "filters")
    /\ Len(cubeQuery.filters) = Len(options.filters)
    /\ \A i \in DOMAIN options.filters :
         /\ DOMAIN cubeQuery.filters[i] = {"member", "operator", "values"}
         /\ cubeQuery.filters[i].member =
              (IF fn = "buildCubeQuery"
                 THEN qualify(options, options.filters[i].dimension)
                 ELSE options.filters[i].dimension)
         /\ cubeQuery.filters[i].operator = options.filters[i].operator
         /\ cubeQuery.filters[i].values = options.filters[i].values

----------------------------------------------------------------------------
(* Claims about the request executor and concurrent use of the token cache *)

\* C11: every operation calls getToken once and sends at most one request.
\* A request goes out only from the point where the credential is in hand;
\* once sent, the operation can only complete or fail, and a response that
\* is not ok makes it fail with the HTTP error in that very step, with the
\* request count, the callback count and the token cache left as they are;
\* a failed operation goes nowhere but back to its caller.
C11_SingleAttempt ==
  [][\A t \in Tasks :
       /\ rq'[t] <= 1
       /\ cb'[t] <= 1
       /\ (rq'[t] > rq[t] => pc[t] = "haveToken" /\ pc'[t] = "awaitResponse")
       /\ (pc[t] = "awaitResponse" /\ pc'[t] # "awaitResponse"
             => /\ pc'[t] \in {"done", "failed"}
                /\ (pc'[t] = "failed" => err'[t] = "http")
                /\ rq'[t] = 1 /\ rq[t] = 1
                /\ cb' = cb
                /\ cachedToken' = cachedToken
                /\ cachedExpiry' = cachedExpiry)
       /\ (pc[t] = "failed" /\ pc'[t] # "failed"
             => pc'[t] = "idle" /\ rq'[t] = 0 /\ cb'[t] = 0)]_vars

\* A callback-mode operation that fetched its token, sent its one request
\* and failed on the response.
C11_Witness ==
  /\ CallbackMode
  /\ \E t \in Tasks :
       /\ pc[t] = "failed"
       /\ err[t] = "http"
       /\ rq[t] = 1
       /\ cb[t] = 1
       /\ op[t] \in AllOps

\* The callback invocations in flight: one per task suspended in
\* await config.fetchToken().
InFlight == {t \in Tasks : pc[t] = "awaitToken"}

\* C12: in callback mode a caller of getToken that finds no valid entry
\* while another caller's callback invocation is still in flight invokes the
\* callback itself: it suspends on an invocation of its own, its single one,
\* the invocations in flight grow by exactly this caller, and each of them
\* belongs to one caller that invoked the callback once.
C12_NoSingleFlight ==
  [][\A t \in Tasks :
       CallbackMode /\ GetTokenCalled(t) /\ ~EntryValid /\ InFlight # {}
         => /\ pc'[t] = "awaitToken"
            /\ cb'[t] = 1
            /\ InFlight' = InFlight \cup {t}
            /\ Cardinality(InFlight') = Cardinality(InFlight) + 1
            /\ \A u \in InFlight' : cb'[u] = 1]_vars

\* Two callback invocations in flight at once for the same client.
C12_Witness ==
  /\ CallbackMode
  /\ ~EntryValid
  /\ Cardinality(InFlight) >= 2
  /\ \A t \in InFlight : cb[t] = 1

\* The expiry decoded from a token: its exp claim in milliseconds, or 0 when
\* it cannot be decoded.
DecodedExpiry(token) == IF Undecodable(token) THEN 0 ELSE ExpiryOf(token)

\* C13: in every reachable state of a callback-mode client the cache pair
\* is consistent: either no token is cached and cachedExpiry is 0, or
\* cachedExpiry is the expiry decoded from the token that is cached now.
C13_CachePairConsistent ==
  CallbackMode =>
    IF cachedToken = <<>>
      THEN cachedExpiry = 0
      ELSE cachedExpiry = DecodedExpiry(cachedToken[1])

\* Two concurrent refreshes have completed with different tokens: the entry
\* holds the token of the later one, with that token's expiry, while the
\* earlier caller still holds the token it fetched.
C13_Witness ==
  /\ CallbackMode
  /\ \E t \in Tasks : \E u \in Tasks \ {t} :
       /\ pc[t] = "haveToken" /\ cb[t] = 1
       /\ pc[u] = "haveToken" /\ cb[u] = 1
       /\ tok[t] # tok[u]
       /\ cachedToken = tok[u]
       /\ ~Undecodable(cachedToken[1])
       /\ ~Undecodable(tok[t][1])
       /\ cachedExpiry = ExpiryOf(cachedToken[1])
       /\ cachedExpiry # ExpiryOf(tok[t][1])

\* C14: in callback mode, when the callback invoked for an operation
\* rejects (the operation leaves its await without a token), it fails with the callback's error in that step,
\* having sent no request and sending none afterwards; neither the step in
\* which the operation called getToken nor the step of the rejection writes
\* cachedToken or cachedExpiry; and every call of getToken, a failure
\* before it or not, decides on the entry as it is then: a valid entry is
\* returned, anything else invokes the callback again.
C14_CallbackRejection ==
  [][CallbackMode =>
       \A t \in Tasks :
         /\ (pc[t] = "awaitToken" /\ pc'[t] # "awaitToken" /\ tok'[t] = <<>>
               => /\ pc'[t] = "failed"
                  /\ err'[t] = "fetchToken"
                  /\ rq[t] = 0 /\ rq'[t] = 0
                  /\ cachedToken' = cachedToken
                  /\ cachedExpiry' = cachedExpiry)
         /\ (pc[t] = "failed" /\ err[t] = "fetchToken"
               => rq'[t] = 0 /\ pc'[t] \in {"failed", "idle"})
         /\ (GetTokenCalled(t)
               => /\ cachedToken' = cachedToken
                  /\ cachedExpiry' = cachedExpiry
                  /\ IF EntryValid
                       THEN pc'[t] = "haveToken" /\ cb'[t] = 0
                       ELSE pc'[t] = "awaitToken" /\ cb'[t] = 1)]_vars

\* An operation has failed on a rejected callback without a request, the
\* entry of an earlier refresh is still cached though no longer valid, and
\* another caller has invoked the callback again.
C14_Witness ==
  /\ CallbackMode
  /\ cachedToken # <<>>
  /\ ~EntryValid
  /\ \E t \in Tasks : \E u \in Tasks \ {t} :
       /\ pc[t] = "failed" /\ err[t] = "fetchToken"
       /\ rq[t] = 0 /\ cb[t] = 1
       /\ pc[u] = "awaitToken" /\ cb[u] = 1
====
